---- MODULE Spec2Model ----
\* Model of native-lib.cpp: the JNI entry point
\* Java_com_profieldmanager_MainActivity_stringFromJNI, called by any number
\* of managed threads.  A call is three statements (lines 12, 13, 14) and the
\* return; each is one step, so that concurrent calls interleave.
EXTENDS Integers, Sequences, FiniteSets, TLC

\* ---------------------------------------------------------------- bounds
NumThreads == 2
MaxCalls == 3

Threads == 1..NumThreads

\* ------------------------------------------------------------- constants
\* line 5
LOG_TAG == "ProFieldManager"
\* line 6: the priority LOGI passes to __android_log_print
ANDROID_LOG_INFO == 4
\* line 13: the format string (it has no conversions, so it is the message)
LOG_MSG == "Native library loaded successfully with 16KB page alignment"
\* line 14: the reference NewStringUTF yields when it cannot build the string
NULL == 0

\* the literal mistyped: "16kB" for "16KB"
HelloLiteralTypo ==
    << 80, 114, 111, 32,
       70, 105, 101, 108, 100, 32,
       77, 97, 110, 97, 103, 101, 114, 32,
       78, 97, 116, 105, 118, 101, 32,
       76, 105, 98, 114, 97, 114, 121, 32,
       45, 32,
       49, 54, 107, 66, 32,
       80, 97, 103, 101, 32,
       65, 108, 105, 103, 110, 101, 100 >>

\* line 12: the bytes of the literal
\* "Pro Field Manager Native Library - 16KB Page Aligned"
HelloLiteral ==
    << 80, 114, 111, 32,
       70, 105, 101, 108, 100, 32,
       77, 97, 110, 97, 103, 101, 114, 32,
       78, 97, 116, 105, 118, 101, 32,
       76, 105, 98, 114, 97, 114, 121, 32,
       45, 32,
       49, 54, 75, 66, 32,
       80, 97, 103, 101, 32,
       65, 108, 105, 103, 110, 101, 100 >>

\* ----------------------------------------------------------------- state
VARIABLES
    pc,       \* pc[t]: "idle", or the line thread t executes next
    frame,    \* frame[t]: the native frames of t, each holding its local hello
    ret,      \* ret[t]: <<>>, or <<r>> once NewStringUTF has yielded r
    exc,      \* exc[t]: the exception pending in t's JNIEnv
    log,      \* the system log: the entries written so far, in order
    heap,     \* the managed heap: the strings created so far
    returns,  \* what the callers received, in order of return
    calls     \* calls[t]: the calls t has started

vars == <<pc, frame, ret, exc, log, heap, returns, calls>>

\* ----------------------------------------------------- pure helpers
\* c_str() of a string that was cleared or moved from: only the NUL
c_strEmpty(s) == <<0>>

\* line 14: std::string::c_str(), the bytes followed by the terminating NUL
c_str(s) == Append(s, 0)

\* line 14: NewStringUTF reads its argument up to the first NUL
RECURSIVE UntilNul(_)
UntilNul(p) ==
    IF p = <<>> \/ p[1] = 0 THEN <<>> ELSE <<p[1]>> \o UntilNul(Tail(p))

\* line 14: NewStringUTF decodes modified UTF-8 into UTF-16 code units
RECURSIVE DecodeMUTF8(_)
DecodeMUTF8(b) ==
    IF b = <<>> THEN <<>>
    ELSE IF b[1] < 128
        THEN <<b[1]>> \o DecodeMUTF8(Tail(b))
    ELSE IF b[1] \div 32 = 6 /\ Len(b) >= 2
        THEN <<(b[1] % 32) * 64 + (b[2] % 64)>> \o DecodeMUTF8(Tail(Tail(b)))
    ELSE IF b[1] \div 16 = 14 /\ Len(b) >= 3
        THEN <<(b[1] % 16) * 4096 + (b[2] % 64) * 64 + (b[3] % 64)>>
             \o DecodeMUTF8(Tail(Tail(Tail(b))))
    ELSE <<65533>> \o DecodeMUTF8(Tail(b))

\* lines 6, 13: the entry one LOGI call writes; the log daemon stamps the
\* writing thread
LOGI(t) ==
    [prio |-> ANDROID_LOG_INFO, tag |-> LOG_TAG, msg |-> LOG_MSG, tid |-> t]

\* lines 13 and 14 exchanged: the string is marshalled before the log call
NextPcSwapped(l) ==
    CASE l = "L12" -> "L14"
      [] l = "L14" -> "L13"
      [] l = "L13" -> "L15"
      [] l = "L15" -> "idle"

\* lines 12-15: straight-line control flow, the line that follows each line
NextPc(l) ==
    CASE l = "L12" -> "L13"
      [] l = "L13" -> "L14"
      [] l = "L14" -> "L15"
      [] l = "L15" -> "idle"

Started == Len(returns) + Cardinality({t \in Threads : pc[t] # "idle"})

\* ------------------------------------------------------------------ init
Init ==
    /\ pc = [t \in Threads |-> "idle"]
    /\ frame = [t \in Threads |-> <<>>]
    /\ ret = [t \in Threads |-> <<>>]
    /\ exc = [t \in Threads |-> "none"]
    /\ log = <<>>
    /\ heap = <<>>
    /\ returns = <<>>
    /\ calls = [t \in Threads |-> 0]

\* --------------------------------------------------------------- actions
\* hello as a static that every call appends to instead of a fresh local
ConstructAccumulating(t) ==
    /\ pc[t] = "idle"
    /\ exc[t] = "none"
    /\ Started < MaxCalls
    /\ pc' = [pc EXCEPT ![t] = NextPc("L12")]
    /\ frame' = [frame EXCEPT ![t] =
                    <<HelloLiteral \o [i \in 1..Len(log) |-> 33]>>]
    /\ calls' = [calls EXCEPT ![t] = @ + 1]
    /\ UNCHANGED <<ret, exc, log, heap, returns>>

\* lines 8-12: the runtime enters the function on thread t (a native method
\* is entered with no exception pending) and hello is constructed
Construct(t) ==
    /\ pc[t] = "idle"
    /\ exc[t] = "none"
    /\ Started < MaxCalls
    /\ pc' = [pc EXCEPT ![t] = NextPc("L12")]
    /\ frame' = [frame EXCEPT ![t] = <<HelloLiteral>>]
    /\ calls' = [calls EXCEPT ![t] = @ + 1]
    /\ UNCHANGED <<ret, exc, log, heap, returns>>

\* the log call guarded by a static "already logged" flag
LogOnce(t) ==
    /\ pc[t] = "L13"
    /\ log' = IF log = <<>> THEN Append(log, LOGI(t)) ELSE log
    /\ pc' = [pc EXCEPT ![t] = NextPc("L13")]
    /\ UNCHANGED <<frame, ret, exc, heap, returns, calls>>

\* line 13: LOGI(...)
Log(t) ==
    /\ pc[t] = "L13"
    /\ log' = Append(log, LOGI(t))
    /\ pc' = [pc EXCEPT ![t] = NextPc("L13")]
    /\ UNCHANGED <<frame, ret, exc, heap, returns, calls>>

\* line 14 followed by a check that throws its own exception on NULL
MarshalThrows(t) ==
    /\ pc[t] = "L14"
    /\ \E ok \in BOOLEAN :
        IF ok
        THEN /\ heap' = Append(heap, DecodeMUTF8(UntilNul(c_str(frame[t][1]))))
             /\ ret' = [ret EXCEPT ![t] = <<Len(heap) + 1>>]
             /\ exc' = exc
        ELSE /\ heap' = heap
             /\ ret' = [ret EXCEPT ![t] = <<NULL>>]
             /\ exc' = [exc EXCEPT ![t] = "RuntimeException"]
    /\ pc' = [pc EXCEPT ![t] = NextPc("L14")]
    /\ UNCHANGED <<frame, log, returns, calls>>

\* line 14: env->NewStringUTF(hello.c_str()).  The host either creates the
\* managed string, or cannot allocate it: then it yields NULL and leaves an
\* OutOfMemoryError pending in the thread's JNIEnv.
Marshal(t) ==
    /\ pc[t] = "L14"
    /\ \E ok \in BOOLEAN :
        IF ok
        THEN /\ heap' = Append(heap, DecodeMUTF8(UntilNul(c_str(frame[t][1]))))
             /\ ret' = [ret EXCEPT ![t] = <<Len(heap) + 1>>]
             /\ exc' = exc
        ELSE /\ heap' = heap
             /\ ret' = [ret EXCEPT ![t] = <<NULL>>]
             /\ exc' = [exc EXCEPT ![t] = "OutOfMemoryError"]
    /\ pc' = [pc EXCEPT ![t] = NextPc("L14")]
    /\ UNCHANGED <<frame, log, returns, calls>>

\* the return preceded by ExceptionClear() when the value is NULL
ReturnChecked(t) ==
    /\ pc[t] = "L15"
    /\ returns' = Append(returns, [tid |-> t, value |-> ret[t][1], exc |-> "none"])
    /\ exc' = [exc EXCEPT ![t] = "none"]
    /\ frame' = [frame EXCEPT ![t] = <<>>]
    /\ ret' = [ret EXCEPT ![t] = <<>>]
    /\ pc' = [pc EXCEPT ![t] = NextPc("L15")]
    /\ UNCHANGED <<log, heap, calls>>

\* hello as a static: it is not destroyed at the return
ReturnKeepsHello(t) ==
    /\ pc[t] = "L15"
    /\ returns' = Append(returns, [tid |-> t, value |-> ret[t][1], exc |-> exc[t]])
    /\ ret' = [ret EXCEPT ![t] = <<>>]
    /\ pc' = [pc EXCEPT ![t] = NextPc("L15")]
    /\ UNCHANGED <<frame, exc, log, heap, calls>>

\* line 14 in a loop that runs NewStringUTF again for as long as it yields NULL
ReturnRetry(t) ==
    /\ pc[t] = "L15"
    /\ IF ret[t] = <<NULL>>
       THEN /\ pc' = [pc EXCEPT ![t] = "L14"]
            /\ exc' = [exc EXCEPT ![t] = "none"]
            /\ UNCHANGED <<returns, frame>>
       ELSE /\ returns' = Append(returns,
                   [tid |-> t, value |-> ret[t][1], exc |-> exc[t]])
            /\ frame' = [frame EXCEPT ![t] = <<>>]
            /\ pc' = [pc EXCEPT ![t] = NextPc("L15")]
            /\ exc' = exc
    /\ ret' = [ret EXCEPT ![t] = <<>>]
    /\ UNCHANGED <<log, heap, calls>>

\* lines 14-15: return the value NewStringUTF yielded; hello is destroyed
Return(t) ==
    /\ pc[t] = "L15"
    /\ returns' = Append(returns, [tid |-> t, value |-> ret[t][1], exc |-> exc[t]])
    /\ frame' = [frame EXCEPT ![t] = <<>>]
    /\ ret' = [ret EXCEPT ![t] = <<>>]
    /\ pc' = [pc EXCEPT ![t] = NextPc("L15")]
    /\ UNCHANGED <<exc, log, heap, calls>>

\* line 14: what the host does with the exception the function left pending:
\* back in managed code it is thrown to the caller, and is pending no more
ExceptionDelivered(t) ==
    /\ pc[t] = "idle"
    /\ exc[t] # "none"
    /\ exc' = [exc EXCEPT ![t] = "none"]
    /\ UNCHANGED <<pc, frame, ret, log, heap, returns, calls>>

Next ==
    \E t \in Threads :
        \/ Construct(t)
        \/ Log(t)
        \/ Marshal(t)
        \/ Return(t)
        \/ ExceptionDelivered(t)

Spec == Init /\ [][Next]_vars

\* The scheduler runs every thread that is inside the function: each of its
\* statements is eventually executed.
FairSpec ==
    Spec /\ \A t \in Threads :
        WF_vars(Log(t)) /\ WF_vars(Marshal(t)) /\ WF_vars(Return(t))

\* ------------------------------------------- vocabulary of the properties
\* the text the entry point is documented to return, as UTF-16 code units:
\* "Pro Field Manager Native Library - 16KB Page Aligned"
ExpectedText ==
    << 80, 114, 111, 32,   70, 105, 101, 108, 100, 32,
       77, 97, 110, 97, 103, 101, 114, 32,   78, 97, 116, 105, 118, 101, 32,
       76, 105, 98, 114, 97, 114, 121, 32,   45, 32,   49, 54, 75, 66, 32,
       80, 97, 103, 101, 32,   65, 108, 105, 103, 110, 101, 100 >>

\* the entries thread t has written, and the calls it has completed
LogCount(t) == Cardinality({i \in DOMAIN log : log[i].tid = t})
RetCount(t) == Cardinality({i \in DOMAIN returns : returns[i].tid = t})

\* what the caller of a completed call r observes
Observed(r) ==
    IF r.value = NULL
    THEN [null |-> TRUE, chars |-> <<>>, exc |-> r.exc]
    ELSE [null |-> FALSE, chars |-> heap[r.value], exc |-> r.exc]

\* what one call, alone in the process, yields when NewStringUTF succeeds
\* (ok) and when it does not
IsolatedCall(ok) ==
    IF ok
    THEN [null |-> FALSE, chars |-> DecodeMUTF8(UntilNul(c_str(HelloLiteral))),
          exc |-> "none"]
    ELSE [null |-> TRUE, chars |-> <<>>, exc |-> "OutOfMemoryError"]

\* thread t executes a statement of the function in this step
Steps(t) == pc'[t] # pc[t]

\* ---------------------------------------------------------------- C1
\* C1 as stated: every completed call returns a string whose content is
\* exactly the documented text.
C1_AlwaysExactText ==
    \A i \in DOMAIN returns :
        /\ returns[i].value # NULL
        /\ heap[returns[i].value] = ExpectedText

\* C1 amended: every completed call whose NewStringUTF created the string
\* returns a string whose content is exactly the documented text, whatever
\* calls happened before.
C1_ExactTextWhenCreated ==
    \A i \in DOMAIN returns :
        returns[i].value # NULL =>
            /\ returns[i].value \in DOMAIN heap
            /\ heap[returns[i].value] = ExpectedText

\* a call returned its string after an earlier call had completed
C1_Witness ==
    \E i \in DOMAIN returns : i > 1 /\ returns[i].value # NULL

\* ---------------------------------------------------------------- C2
\* C2 as stated: the returned value is never null and never the empty
\* string, also when NewStringUTF cannot allocate.
C2_NeverNullNeverEmpty ==
    \A i \in DOMAIN returns :
        /\ returns[i].value # NULL
        /\ heap[returns[i].value] # <<>>

\* C2 amended: the returned value is never the empty string, and it is null
\* exactly when NewStringUTF could not allocate the return string and left
\* an OutOfMemoryError pending.
C2_NullOnlyOnAllocFailure ==
    \A i \in DOMAIN returns :
        /\ (returns[i].value = NULL) <=> (returns[i].exc = "OutOfMemoryError")
        /\ returns[i].value # NULL => heap[returns[i].value] # <<>>

\* one call has returned null and another a string
C2_Witness ==
    \E i, j \in DOMAIN returns :
        returns[i].value = NULL /\ returns[j].value # NULL

\* ---------------------------------------------------------------- C3
\* C3: each call emits exactly one log entry, with tag "ProFieldManager",
\* level INFO and the fixed message: the log holds one entry per completed
\* call plus one per call that is past line 13, and n entries after n
\* completed calls.
C3_OneEntryPerCall ==
    /\ Len(log) = Len(returns)
                  + Cardinality({t \in Threads : pc[t] \in {"L14", "L15"}})
    /\ \A t \in Threads :
        LogCount(t) = IF pc[t] = "L13" THEN calls[t] - 1 ELSE calls[t]
    /\ \A i \in DOMAIN log :
        /\ log[i].tag = "ProFieldManager"
        /\ log[i].prio = ANDROID_LOG_INFO
        /\ log[i].msg = log[1].msg

\* several calls have completed, none is running, and the log holds as
\* many entries as calls
C3_Witness ==
    /\ Len(returns) >= 2
    /\ \A t \in Threads : pc[t] = "idle"
    /\ Len(log) = Len(returns)

\* ---------------------------------------------------------------- C4
\* C4: under every interleaving of any number of calls, every call returns
\* a result of a single isolated call: the string an isolated call returns
\* when its NewStringUTF allocates, or what it returns when it cannot;
\* nothing in the result comes from the calls before or alongside it.
C4_SameAsIsolatedCall ==
    \A i \in DOMAIN returns :
        /\ Observed(returns[i]) \in {IsolatedCall(ok) : ok \in BOOLEAN}
        /\ \A j \in DOMAIN returns :
            (returns[i].value # NULL /\ returns[j].value # NULL)
                => Observed(returns[i]) = Observed(returns[j])

\* two threads have both completed a call with a string, a third call is
\* running
C4_Witness ==
    /\ \E i, j \in DOMAIN returns :
        /\ returns[i].tid # returns[j].tid
        /\ returns[i].value # NULL /\ returns[j].value # NULL
    /\ \E t \in Threads : pc[t] # "idle"

\* ---------------------------------------------------------------- C5
\* C5 as stated: no reachable state of a call is a failure outcome.
C5_NoFailureOutcome ==
    \A t \in Threads :
        /\ exc[t] = "none"
        /\ ret[t] # <<>> => ret[t][1] # NULL

\* C5 amended: a call has exactly two outcomes, decided by NewStringUTF
\* alone: the string was created and no exception is pending, or NULL with
\* an OutOfMemoryError pending; no exception is pending before line 14.
C5_TwoOutcomes ==
    \A t \in Threads :
        /\ ret[t] # <<>> =>
            \/ ret[t][1] \in DOMAIN heap /\ exc[t] = "none"
            \/ ret[t][1] = NULL /\ exc[t] = "OutOfMemoryError"
        /\ pc[t] \in {"L13", "L14"} => exc[t] = "none"
        /\ exc[t] \in {"none", "OutOfMemoryError"}

\* one call is at its return with a string while another is at its return
\* with NULL
C5_Witness ==
    \E t, u \in Threads :
        /\ pc[t] = "L15" /\ ret[t] # <<NULL>>
        /\ pc[u] = "L15" /\ ret[u] = <<NULL>>

\* ---------------------------------------------------------------- C6
\* C6: within each call the string is constructed, then the log entry is
\* emitted, then the string is marshalled, then the call returns.
C6_FixedOrder ==
    \A t \in Threads :
        /\ pc[t] = "idle" =>
            /\ frame[t] = <<>> /\ ret[t] = <<>>
            /\ LogCount(t) = calls[t] /\ RetCount(t) = calls[t]
        /\ pc[t] = "L13" =>
            /\ Len(frame[t]) = 1 /\ ret[t] = <<>>
            /\ LogCount(t) = calls[t] - 1 /\ RetCount(t) = calls[t] - 1
        /\ pc[t] = "L14" =>
            /\ Len(frame[t]) = 1 /\ ret[t] = <<>>
            /\ LogCount(t) = calls[t] /\ RetCount(t) = calls[t] - 1
        /\ pc[t] = "L15" =>
            /\ Len(frame[t]) = 1 /\ Len(ret[t]) = 1
            /\ LogCount(t) = calls[t] /\ RetCount(t) = calls[t] - 1

\* a call is about to return while another has only constructed its string
C6_Witness ==
    \E t, u \in Threads : pc[t] = "L15" /\ pc[u] = "L13"

\* ---------------------------------------------------------------- C7
\* C7: when NewStringUTF yielded NULL, the function returns that NULL in
\* its next step: it does not run line 14 again, creates no replacement
\* string, and the pending exception is the same after the return.
C7_FailurePassedThrough ==
    [][\A t \in Threads :
        (pc[t] = "L15" /\ ret[t] = <<NULL>> /\ Steps(t)) =>
            /\ pc'[t] = "idle"
            /\ returns' = Append(returns,
                   [tid |-> t, value |-> NULL, exc |-> "OutOfMemoryError"])
            /\ heap' = heap
            /\ exc'[t] = exc[t] /\ exc[t] = "OutOfMemoryError"]_vars

\* a call has returned NULL and its exception is still pending
C7_Witness ==
    \E i \in DOMAIN returns :
        /\ returns[i].value = NULL
        /\ pc[returns[i].tid] = "idle"
        /\ exc[returns[i].tid] = "OutOfMemoryError"

\* ---------------------------------------------------------------- C8
\* C8 as stated: a step of a call changes nothing that outlives the call
\* but the log, by its one entry, and the heap, by the returned string.
C8_OnlyLogAndString ==
    [][\A t \in Threads : Steps(t) =>
        /\ exc' = exc
        /\ log' = log \/ log' = Append(log, LOGI(t))
        /\ heap' = heap \/ \E s \in {ExpectedText} : heap' = Append(heap, s)
        /\ \A u \in Threads \ {t} : frame'[u] = frame[u] /\ ret'[u] = ret[u]
        /\ pc'[t] = "idle" => frame'[t] = <<>>]_vars

\* C8 amended: a step of a call changes nothing that outlives the call but
\* the log, by its one entry, the heap, by the returned string, and, when
\* NewStringUTF fails, the calling thread's pending exception; the other
\* threads' locals are untouched and the local string is gone at return.
C8_OnlyLogStringAndException ==
    [][\A t \in Threads : Steps(t) =>
        /\ \/ exc' = exc
           \/ /\ ret'[t] = <<NULL>>
              /\ exc' = [exc EXCEPT ![t] = "OutOfMemoryError"]
        /\ log' = log \/ log' = Append(log, LOGI(t))
        /\ heap' = heap \/ \E s \in {ExpectedText} : heap' = Append(heap, s)
        /\ \A u \in Threads \ {t} : frame'[u] = frame[u] /\ ret'[u] = ret[u]
        /\ pc'[t] = "idle" => frame'[t] = <<>>]_vars

\* a call has completed while another thread is inside the function, and
\* the completed call's local string is gone
C8_Witness ==
    \E t, u \in Threads :
        /\ RetCount(t) >= 1 /\ pc[t] = "idle" /\ frame[t] = <<>>
        /\ pc[u] \in {"L14", "L15"} /\ Len(frame[u]) = 1

\* ---------------------------------------------------------------- C9
\* C9: under fair scheduling every started call eventually returns.
C9_EveryCallReturns ==
    \A t \in Threads : (pc[t] # "idle") ~> (pc[t] = "idle")

\* every thread is inside the function at once
C9_Witness ==
    \A t \in Threads : pc[t] # "idle"

\* --------------------------------------------------------------- C10
\* C10: a call's log entry, with the message "... loaded successfully
\* ...", is in the log before line 14 yields anything, whether a string or
\* NULL: every call that got NULL has emitted its entry.
C10_LoggedBeforeMarshalled ==
    /\ \A t \in Threads :
        ret[t] # <<>> =>
            /\ LogCount(t) = calls[t]
            /\ \E i \in DOMAIN log : log[i] = LOGI(t)
    /\ \A i \in DOMAIN returns :
        returns[i].value = NULL => LogCount(returns[i].tid) >= 1
    /\ \A i \in DOMAIN log :
        log[i].msg = "Native library loaded successfully with 16KB page alignment"

\* the log holds the success entry of a call that got NULL from
\* NewStringUTF, and no call has produced a string
C10_Witness ==
    /\ \E t \in Threads :
        /\ ret[t] = <<NULL>>
        /\ \E i \in DOMAIN log : log[i].tid = t
    /\ heap = <<>>
====
